---- MODULE Spec2Model ----
(***************************************************************************)
(* Model of the AnyDataset terminal client (rustui): the App session       *)
(* record of app.rs, its per-screen key handlers, and the event loop of    *)
(* main.rs::run_app that dispatches key presses and ticks to them.         *)
(*                                                                         *)
(* Encoding.  Option<T> is a sequence of length at most one: None is << >> *)
(* and Some(x) is <<x>>.  A Rust String is a sequence of string chunks, so *)
(* that format!() is concatenation and typed text is a sequence of chars.  *)
(*                                                                         *)
(* backend is the environment of the loop: the HTTP response the backend   *)
(* has for GET /api/jobs/{current job} at the moment of the last tick.     *)
(* call is the last call into processors.rs made by a direct caller.       *)
(***************************************************************************)
EXTENDS Integers, Sequences, FiniteSets, TLC

VARIABLES app, pre, event, running, backend, call, disk, term, logger

vars == <<app, pre, event, running, backend, call, disk, term, logger>>

\* ------------------------------------------------------------------ bounds
\* the operator uploads at most MaxFiles files
MaxFiles == 3
\* the operator types at most MaxInputLen characters into the job-id field
MaxInputLen == 1
\* at most MaxDebug ticks are taken while a job is current (debug_info grows)
MaxDebug == 1

\* ------------------------------------------------------------------- keys
\* KeyCode::Char(c) for the characters the code distinguishes
Chars == {"q", "u", "p", "s", "j", "f", "1", "2", "3", "4", "l", "m"}

\* the other KeyCode values; Tab stands for every key no arm names
Specials == {"Esc", "Enter", "Backspace", "Down", "Up", "Tab"}

Keys == Chars \cup Specials

\* the characters the operator types into the job-id field; every Char(c)
\* takes the same arm of handle_job_status_input, 'q' is the one that is a
\* command on another screen
TypedChars == {"q"}

\* the values uuid::Uuid::new_v4() may return
UUIDs == {"uuid-a", "uuid-b"}

\* ------------------------------------------------------------ Option, text
None == << >>

Some(x) == <<x>>

IsSome(o) == Len(o) = 1

Unwrap(o) == o[1]

Digit == <<"0", "1", "2", "3", "4", "5", "6", "7", "8", "9">>

RECURSIVE Decimal(_)
\* "{}" formatting of an unsigned integer
Decimal(n) == IF n < 10 THEN <<Digit[n + 1]>>
              ELSE Decimal(n \div 10) \o <<Digit[(n % 10) + 1]>>

\* ------------------------------------------------------------ AppState etc
AppState == {"Main", "Upload", "Process", "Settings", "JobStatus"}

ProcessingType == {"Standard", "Article", "Translate", "Batch"}

\* to_str that gives the name of the variant as it is declared
to_str_variant(pt) == pt

\* ProcessingType::to_str
to_str(pt) == CASE pt = "Standard" -> "standard"
                [] pt = "Article" -> "article"
                [] pt = "Translate" -> "translate"
                [] pt = "Batch" -> "batch"

\* ProcessingType::all, in the order the Process screen numbers the modes
ProcessingType_all == <<"Standard", "Article", "Translate", "Batch">>

\* tui_input::Input as the handlers use it: text and a cursor position
InputDefault == [value |-> << >>, cursor |-> 0]

Input_insert(inp, c) ==
    [value |-> SubSeq(inp.value, 1, inp.cursor) \o <<c>>
                 \o SubSeq(inp.value, inp.cursor + 1, Len(inp.value)),
     cursor |-> inp.cursor + 1]

Input_delete(inp) ==
    IF inp.cursor = 0 THEN inp
    ELSE [value |-> SubSeq(inp.value, 1, inp.cursor - 1)
                      \o SubSeq(inp.value, inp.cursor + 1, Len(inp.value)),
          cursor |-> inp.cursor - 1]

BackendUrl == <<"http://localhost:8000">>

\* App::new
AppNew ==
    [state |-> "Main",
     backend_url |-> BackendUrl,
     uploaded_files |-> << >>,
     selected_file_index |-> None,
     processing_type |-> "Standard",
     language |-> "en",
     job_id_input |-> InputDefault,
     current_job_id |-> None,
     job_progress |-> None,
     job_status |-> None,
     providers |-> <<"openai", "anthropic">>,
     selected_provider_index |-> Some(0),
     models |-> [p \in {"openai", "anthropic"} |->
                   IF p = "openai" THEN <<"gpt-4-turbo", "gpt-3.5-turbo">>
                   ELSE <<"claude-3-opus", "claude-3-sonnet">>],
     selected_model_index |-> Some(0),
     keywords |-> << >>,
     system_prompt |-> << >>,
     message |-> None,
     debug_info |-> << >>]

\* ---------------------------------------------------------------- on_tick
on_tick(a) ==
    IF IsSome(a.current_job_id)
    THEN [a EXCEPT !.debug_info =
            Append(@, <<"Checking job status for ">> \o Unwrap(a.current_job_id))]
    ELSE a

\* handle_upload_input with an upload that also moves to the Process screen
handle_upload_input_moves(a, key) ==
    IF key = "f"
    THEN [a EXCEPT
            !.uploaded_files =
                Append(@, <<"file_">> \o Decimal(Len(a.uploaded_files) + 1) \o <<".pdf">>),
            !.message = Some(<<"File uploaded successfully">>),
            !.state = "Process"]
    ELSE a

\* handle_upload_input with an upload that also selects the uploaded file
handle_upload_input_selects(a, key) ==
    IF key = "f"
    THEN [a EXCEPT
            !.uploaded_files =
                Append(@, <<"file_">> \o Decimal(Len(a.uploaded_files) + 1) \o <<".pdf">>),
            !.message = Some(<<"File uploaded successfully">>),
            !.selected_file_index = Some(Len(a.uploaded_files))]
    ELSE a

\* ---------------------------------------------------- handle_upload_input
handle_upload_input(a, key) ==
    IF key = "f"
    THEN [a EXCEPT
            !.uploaded_files =
                Append(@, <<"file_">> \o Decimal(Len(a.uploaded_files) + 1) \o <<".pdf">>),
            !.message = Some(<<"File uploaded successfully">>)]
    ELSE a

\* --------------------------------------------------- handle_process_input
\* submit_job that leaves the progress of the previous job in place
submit_job_keeps_progress(a, uuid) ==
    IF IsSome(a.selected_file_index)
    THEN LET file == a.uploaded_files[Unwrap(a.selected_file_index) + 1]
         IN [a EXCEPT
               !.current_job_id = Some(<<"job_", uuid>>),
               !.job_progress = IF IsSome(@) THEN @ ELSE Some(<<0, 100>>),
               !.job_status = Some(<<"processing">>),
               !.message = Some(<<"Processing ">> \o file \o <<" with ">>
                                  \o <<to_str(a.processing_type)>> \o <<" type">>)]
    ELSE [a EXCEPT !.message = Some(<<"No file selected">>)]

\* the KeyCode::Char('p') arm, taken when uploaded_files is not empty
submit_job(a, uuid) ==
    IF IsSome(a.selected_file_index)
    THEN LET file == a.uploaded_files[Unwrap(a.selected_file_index) + 1]
         IN [a EXCEPT
               !.current_job_id = Some(<<"job_", uuid>>),
               !.job_progress = Some(<<0, 100>>),
               !.job_status = Some(<<"processing">>),
               !.message = Some(<<"Processing ">> \o file \o <<" with ">>
                                  \o <<to_str(a.processing_type)>> \o <<" type">>)]
    ELSE [a EXCEPT !.message = Some(<<"No file selected">>)]

\* file_down without the emptiness test
file_down_unguarded(a) ==
    [a EXCEPT !.selected_file_index =
        IF IsSome(@) /\ Unwrap(@) < Len(a.uploaded_files) - 1
        THEN Some(Unwrap(@) + 1)
        ELSE Some(0)]

\* file_down comparing against len instead of len - 1
file_down_past_end(a) ==
    IF a.uploaded_files # << >>
    THEN [a EXCEPT !.selected_file_index =
            IF IsSome(@) /\ Unwrap(@) < Len(a.uploaded_files)
            THEN Some(Unwrap(@) + 1)
            ELSE Some(0)]
    ELSE a

\* the KeyCode::Down arm
file_down(a) ==
    IF a.uploaded_files # << >>
    THEN [a EXCEPT !.selected_file_index =
            IF IsSome(@) /\ Unwrap(@) < Len(a.uploaded_files) - 1
            THEN Some(Unwrap(@) + 1)
            ELSE Some(0)]
    ELSE a

\* file_up that stops at the first index instead of wrapping
file_up_saturating(a) ==
    IF a.uploaded_files # << >>
    THEN [a EXCEPT !.selected_file_index =
            IF IsSome(@) /\ Unwrap(@) > 0 THEN Some(Unwrap(@) - 1)
            ELSE Some(0)]
    ELSE a

\* file_up that selects the last element when nothing is selected
file_up_none_last(a) ==
    IF a.uploaded_files # << >>
    THEN [a EXCEPT !.selected_file_index =
            IF IsSome(@) /\ Unwrap(@) > 0 THEN Some(Unwrap(@) - 1)
            ELSE Some(Len(a.uploaded_files) - 1)]
    ELSE a

\* the KeyCode::Up arm
file_up(a) ==
    IF a.uploaded_files # << >>
    THEN [a EXCEPT !.selected_file_index =
            IF IsSome(@) /\ Unwrap(@) > 0 THEN Some(Unwrap(@) - 1)
            ELSE IF IsSome(@) THEN Some(Len(a.uploaded_files) - 1)
            ELSE Some(0)]
    ELSE a

\* handle_process_input with the modes of '2' and '3' exchanged
handle_process_input_swapped(a, key, uuid) ==
    CASE key = "1" -> [a EXCEPT !.processing_type = "Standard"]
      [] key = "2" -> [a EXCEPT !.processing_type = "Translate"]
      [] key = "3" -> [a EXCEPT !.processing_type = "Article"]
      [] key = "4" -> [a EXCEPT !.processing_type = "Batch"]
      [] key = "p" /\ a.uploaded_files # << >> -> submit_job(a, uuid)
      [] key = "Down" -> file_down(a)
      [] key = "Up" -> file_up(a)
      [] OTHER -> a

handle_process_input(a, key, uuid) ==
    CASE key = "1" -> [a EXCEPT !.processing_type = "Standard"]
      [] key = "2" -> [a EXCEPT !.processing_type = "Article"]
      [] key = "3" -> [a EXCEPT !.processing_type = "Translate"]
      [] key = "4" -> [a EXCEPT !.processing_type = "Batch"]
      [] key = "p" /\ a.uploaded_files # << >> -> submit_job(a, uuid)
      [] key = "Down" -> file_down(a)
      [] key = "Up" -> file_up(a)
      [] OTHER -> a

\* -------------------------------------------------- handle_settings_input
\* next_provider that leaves the model selection where it was
next_provider_keeps_model(a) ==
    IF a.providers # << >>
    THEN [a EXCEPT
            !.selected_provider_index =
                IF IsSome(@) /\ Unwrap(@) < Len(a.providers) - 1
                THEN Some(Unwrap(@) + 1)
                ELSE Some(0)]
    ELSE a

\* next_model that steps past the last model instead of wrapping
next_model_past_end(a) ==
    IF IsSome(a.selected_provider_index)
    THEN LET provider == a.providers[Unwrap(a.selected_provider_index) + 1]
         IN IF provider \in DOMAIN a.models /\ a.models[provider] # << >>
            THEN [a EXCEPT !.selected_model_index =
                    IF IsSome(@) THEN Some(Unwrap(@) + 1) ELSE Some(0)]
            ELSE a
    ELSE a

\* the KeyCode::Char('p') arm
next_provider(a) ==
    IF a.providers # << >>
    THEN [a EXCEPT
            !.selected_provider_index =
                IF IsSome(@) /\ Unwrap(@) < Len(a.providers) - 1
                THEN Some(Unwrap(@) + 1)
                ELSE Some(0),
            !.selected_model_index = Some(0)]
    ELSE a

\* the KeyCode::Char('m') arm
next_model(a) ==
    IF IsSome(a.selected_provider_index)
    THEN LET provider == a.providers[Unwrap(a.selected_provider_index) + 1]
         IN IF provider \in DOMAIN a.models /\ a.models[provider] # << >>
            THEN [a EXCEPT !.selected_model_index =
                    IF IsSome(@) /\ Unwrap(@) < Len(a.models[provider]) - 1
                    THEN Some(Unwrap(@) + 1)
                    ELSE Some(0)]
            ELSE a
    ELSE a

handle_settings_input(a, key) ==
    CASE key = "l" ->
           LET lang == IF a.language = "en" THEN "pl" ELSE "en"
           IN [a EXCEPT !.language = lang,
                        !.message = Some(<<"Language changed to ", lang>>)]
      [] key = "p" -> next_provider(a)
      [] key = "m" -> next_model(a)
      [] OTHER -> a

\* slice::get: the element at a zero-based index, if there is one
get(s, i) == IF i + 1 \in DOMAIN s THEN Some(s[i + 1]) ELSE None

\* ---------------------------------------------------- get_current_provider
get_current_provider(a) ==
    IF IsSome(a.selected_provider_index)
    THEN get(a.providers, Unwrap(a.selected_provider_index))
    ELSE None

\* ------------------------------------------------------- get_current_model
get_current_model(a) ==
    LET provider == get_current_provider(a)
    IN IF provider = None THEN None
       ELSE IF Unwrap(provider) \notin DOMAIN a.models THEN None
       ELSE IF IsSome(a.selected_model_index)
       THEN get(a.models[Unwrap(provider)], Unwrap(a.selected_model_index))
       ELSE None

\* the Provider and Model lines of draw_settings
draw_settings(a) ==
    [provider |-> IF IsSome(get_current_provider(a))
                  THEN Unwrap(get_current_provider(a)) ELSE "none",
     model |-> IF IsSome(get_current_model(a))
               THEN Unwrap(get_current_model(a)) ELSE "none"]

\* ------------------------------------------------ handle_job_status_input
\* query_job without the emptiness test
query_job_unchecked(a) ==
    [a EXCEPT
       !.current_job_id = Some(a.job_id_input.value),
       !.job_progress = Some(<<50, 100>>),
       !.job_status = Some(<<"processing">>),
       !.message = Some(<<"Job status retrieved">>)]

\* query_job with the progress pair written as (total, current)
query_job_swapped(a) ==
    LET job_id == a.job_id_input.value
    IN IF job_id # << >>
       THEN [a EXCEPT
               !.current_job_id = Some(job_id),
               !.job_progress = Some(<<100, 50>>),
               !.job_status = Some(<<"processing">>),
               !.message = Some(<<"Job status retrieved">>)]
       ELSE [a EXCEPT !.message = Some(<<"Please enter a job ID">>)]

\* query_job that sets the id and the status of the job but not its progress
query_job_without_progress(a) ==
    LET job_id == a.job_id_input.value
    IN IF job_id # << >>
       THEN [a EXCEPT
               !.current_job_id = Some(job_id),
               !.job_status = Some(<<"processing">>),
               !.message = Some(<<"Job status retrieved">>)]
       ELSE [a EXCEPT !.message = Some(<<"Please enter a job ID">>)]

\* the KeyCode::Enter arm
query_job(a) ==
    LET job_id == a.job_id_input.value
    IN IF job_id # << >>
       THEN [a EXCEPT
               !.current_job_id = Some(job_id),
               !.job_progress = Some(<<50, 100>>),
               !.job_status = Some(<<"processing">>),
               !.message = Some(<<"Job status retrieved">>)]
       ELSE [a EXCEPT !.message = Some(<<"Please enter a job ID">>)]

handle_job_status_input(a, key) ==
    CASE key \in Chars -> [a EXCEPT !.job_id_input = Input_insert(@, key)]
      [] key = "Backspace" -> [a EXCEPT !.job_id_input = Input_delete(@)]
      [] key = "Enter" -> query_job(a)
      [] OTHER -> a

\* ---------------------------------------------------------------- api.rs
\* the JobStatus struct of api.rs
JobStatus(job_id, status, current, total, error) ==
    [job_id |-> job_id, status |-> status, current |-> current,
     total |-> total, error |-> error]

\* ---------------------------------------------- Serialize, Deserialize
\* The JSON text serde_json writes for a struct is modelled as the sequence
\* of its members, <<name, value>>, in the order they are written.
\* serde_json::Value
JsonString(s) == [type |-> "String", s |-> s]
JsonNumber(n) == [type |-> "Number", n |-> n]
JsonNull == [type |-> "Null"]
JsonBool(b) == [type |-> "Bool", b |-> b]
JsonArray(a) == [type |-> "Array", a |-> a]

\* f32 values: decimal literals and the infinity
F32 == {"0.7", "0.0", "inf"}
is_finite(x) == x # "inf"

\* Serialize for f32: serde_json writes a value that is not finite as null
serialize_f32(x) == IF is_finite(x) THEN JsonNumber(x) ELSE JsonNull

\* Serialize for Vec<String>
serialize_strings(v) == JsonArray([i \in 1..Len(v) |-> JsonString(v[i])])

\* Serialize for Option<T>: None is written as null, Some(x) as x
serialize_Option_String(o) ==
    IF o = None THEN JsonNull ELSE JsonString(Unwrap(o))
serialize_Option_strings(o) ==
    IF o = None THEN JsonNull ELSE serialize_strings(Unwrap(o))
serialize_Option_f32(o) ==
    IF o = None THEN JsonNull ELSE serialize_f32(Unwrap(o))
serialize_Option_number(o) ==
    IF o = None THEN JsonNull ELSE JsonNumber(Unwrap(o))
serialize_Option_bool(o) ==
    IF o = None THEN JsonNull ELSE JsonBool(Unwrap(o))

\* the member called name of an object, if it has one
member(json, name) ==
    LET I == {i \in 1..Len(json) : json[i][1] = name}
    IN IF I = {} THEN None ELSE Some(json[CHOOSE i \in I : TRUE][2])

deserialize_string(v) == v.s
deserialize_number(v) == v.n
deserialize_bool(v) == v.b
deserialize_strings(v) == [i \in 1..Len(v.a) |-> v.a[i].s]

\* the member m of an object is missing or null
absent(m) == IF m = None THEN TRUE ELSE Unwrap(m).type = "Null"

\* Deserialize for Option<T>: a missing member and null both give None
deserialize_Option_String(m) ==
    IF absent(m) THEN None ELSE Some(deserialize_string(Unwrap(m)))
deserialize_Option_strings(m) ==
    IF absent(m) THEN None ELSE Some(deserialize_strings(Unwrap(m)))
deserialize_Option_number(m) ==
    IF absent(m) THEN None ELSE Some(deserialize_number(Unwrap(m)))
deserialize_Option_bool(m) ==
    IF absent(m) THEN None ELSE Some(deserialize_bool(Unwrap(m)))

\* struct ProcessingConfig
ProcessingConfig(provider, model, system_prompt, keywords, temperature, max_tokens, language, processing_type, add_reasoning, output_format) ==
    [provider |-> provider, model |-> model, system_prompt |-> system_prompt,
     keywords |-> keywords, temperature |-> temperature,
     max_tokens |-> max_tokens, language |-> language,
     processing_type |-> processing_type, add_reasoning |-> add_reasoning,
     output_format |-> output_format]

\* derive(Serialize) for ProcessingConfig: every field, in declaration order
serialize_ProcessingConfig(c) ==
    << <<"provider", JsonString(c.provider)>>,
       <<"model", JsonString(c.model)>>,
       <<"system_prompt", serialize_Option_String(c.system_prompt)>>,
       <<"keywords", serialize_Option_strings(c.keywords)>>,
       <<"temperature", serialize_Option_f32(c.temperature)>>,
       <<"max_tokens", serialize_Option_number(c.max_tokens)>>,
       <<"language", serialize_Option_String(c.language)>>,
       <<"processing_type", JsonString(c.processing_type)>>,
       <<"add_reasoning", serialize_Option_bool(c.add_reasoning)>>,
       <<"output_format", serialize_Option_String(c.output_format)>> >>

\* derive(Deserialize) for ProcessingConfig: the three String fields are
\* required, the Option fields may be missing
deserialize_ProcessingConfig(json) ==
    IF \E name \in {"provider", "model", "processing_type"} :
          \/ member(json, name) = None
          \/ Unwrap(member(json, name)).type # "String"
    THEN [ok |-> FALSE, value |-> None]
    ELSE [ok |-> TRUE,
          value |-> Some(ProcessingConfig(
              Unwrap(member(json, "provider")).s,
              Unwrap(member(json, "model")).s,
              deserialize_Option_String(member(json, "system_prompt")),
              deserialize_Option_strings(member(json, "keywords")),
              deserialize_Option_number(member(json, "temperature")),
              deserialize_Option_number(member(json, "max_tokens")),
              deserialize_Option_String(member(json, "language")),
              Unwrap(member(json, "processing_type")).s,
              deserialize_Option_bool(member(json, "add_reasoning")),
              deserialize_Option_String(member(json, "output_format"))))]

\* derive(Serialize) for JobStatus: every field, in declaration order
serialize_JobStatus(j) ==
    << <<"job_id", JsonString(j.job_id)>>,
       <<"status", JsonString(j.status)>>,
       <<"current", serialize_Option_number(j.current)>>,
       <<"total", serialize_Option_number(j.total)>>,
       <<"error", serialize_Option_String(j.error)>> >>

\* derive(Deserialize) for JobStatus
deserialize_JobStatus(json) ==
    IF \E name \in {"job_id", "status"} :
          \/ member(json, name) = None
          \/ Unwrap(member(json, name)).type # "String"
    THEN [ok |-> FALSE, value |-> None]
    ELSE [ok |-> TRUE,
          value |-> Some(JobStatus(
              Unwrap(member(json, "job_id")).s,
              Unwrap(member(json, "status")).s,
              deserialize_Option_number(member(json, "current")),
              deserialize_Option_number(member(json, "total")),
              deserialize_Option_String(member(json, "error"))))]

\* the ProcessingConfig values that are serialized
ProcessingConfigs ==
    {ProcessingConfig("openai", "gpt-4-turbo", system_prompt, keywords,
                      temperature, max_tokens, language, "standard",
                      add_reasoning, output_format) :
        system_prompt \in {None, Some("Test prompt")},
        keywords \in {None, Some(<< >>), Some(<<"test", "keywords">>)},
        temperature \in {None} \cup {Some(x) : x \in F32},
        max_tokens \in {None, Some(1000)},
        language \in {None, Some("en")},
        add_reasoning \in {None, Some(TRUE)},
        output_format \in {None, Some("json")}}

\* the JobStatus values that are serialized
JobStatuses ==
    {JobStatus("test-123", status, current, total, error) :
        status \in {"processing", "completed", "failed"},
        current \in {None, Some(5)},
        total \in {None, Some(10)},
        error \in {None, Some("out of memory")}}

\* serde_json::to_string(&config) followed by serde_json::from_str(&json)
RoundTripConfig(config) ==
    /\ LET json == serialize_ProcessingConfig(config)
       IN call' = [fn |-> "serde ProcessingConfig", value |-> config,
                   json |-> json, back |-> deserialize_ProcessingConfig(json)]
    /\ UNCHANGED <<app, pre, event, running, backend, disk, term, logger>>

\* serde_json::to_string(&status) followed by serde_json::from_str(&json)
RoundTripJobStatus(status) ==
    /\ LET json == serialize_JobStatus(status)
       IN call' = [fn |-> "serde JobStatus", value |-> status,
                   json |-> json, back |-> deserialize_JobStatus(json)]
    /\ UNCHANGED <<app, pre, event, running, backend, disk, term, logger>>

\* -------------------------------------------------------------- ApiClient
\* A response of the backend, as the client sees it: sent is FALSE when the
\* request could not be sent; code is the status; text is the body, or None
\* when the body cannot be read; json is the body parsed as a JSON object, or
\* None when it is not one.
Response(sent, code, text, json) ==
    [sent |-> sent, code |-> code, text |-> text, json |-> json]

\* what the backend may answer to GET /api/jobs/{job_id}: no answer at all
\* (sent = FALSE), a non-2xx status with a text body, or 200 with a job status
BackendResponses(job_id) ==
    {Response(FALSE, 0, None, None),
     Response(TRUE, 404, Some(<<"Job not found">>), None),
     Response(TRUE, 200, Some(<<"{processing 5/10}">>),
              Some(serialize_JobStatus(
                  JobStatus(job_id, "processing", Some(5), Some(10), None)))),
     Response(TRUE, 200, Some(<<"{completed 10/10}">>),
              Some(serialize_JobStatus(
                  JobStatus(job_id, "completed", Some(10), Some(10), None))))}

\* StatusCode::is_success
is_success(code) == 200 <= code /\ code <= 299

\* StatusCode::canonical_reason
canonical_reason(code) ==
    CASE code = 200 -> Some("OK")
      [] code = 201 -> Some("Created")
      [] code = 301 -> Some("Moved Permanently")
      [] code = 400 -> Some("Bad Request")
      [] code = 401 -> Some("Unauthorized")
      [] code = 404 -> Some("Not Found")
      [] code = 500 -> Some("Internal Server Error")
      [] OTHER -> None

\* "{}" formatting of a StatusCode: the number and the canonical reason
StatusCode_fmt(code) ==
    Decimal(code) \o <<" ">>
    \o <<IF IsSome(canonical_reason(code))
         THEN Unwrap(canonical_reason(code))
         ELSE "<unknown status code>">>

\* response.text().await.unwrap_or_else(|_| "Unknown error".to_string())
error_text(resp) ==
    IF IsSome(resp.text) THEN Unwrap(resp.text) ELSE <<"Unknown error">>

\* anyhow::Result<T>
Ok(value) == [ok |-> TRUE, value |-> Some(value), error |-> << >>]
Err(error) == [ok |-> FALSE, value |-> None, error |-> error]

\* Result<JobStatus>: Ok(value) or Err(error)
get_job_status(resp) ==
    IF ~resp.sent THEN Err(<<"Failed to send request">>)
    ELSE IF ~is_success(resp.code)
    THEN Err(<<"API error (">> \o StatusCode_fmt(resp.code) \o <<"): ">>
             \o error_text(resp))
    ELSE IF resp.json = None
    THEN Err(<<"Failed to parse job status">>)
    ELSE LET job_status == deserialize_JobStatus(Unwrap(resp.json))
         IN IF ~job_status.ok THEN Err(<<"Failed to parse job status">>)
            ELSE Ok(Unwrap(job_status.value))

\* the member called name of the body, when it is a string
string_member(resp, name) ==
    IF resp.json = None THEN None
    ELSE LET m == member(Unwrap(resp.json), name)
         IN IF m = None THEN None
            ELSE IF Unwrap(m).type # "String" THEN None
            ELSE Some(Unwrap(m).s)

\* Result<String>: the file id; file is the file at file_path, with its
\* name (None when the path has none) and its data (None when unreadable)
upload_file(file, resp) ==
    IF file.name = None THEN Err(<<"Invalid file name">>)
    ELSE IF file.data = None THEN Err(<<"Failed to read file">>)
    ELSE IF ~resp.sent THEN Err(<<"Failed to upload file">>)
    ELSE IF ~is_success(resp.code)
    THEN Err(<<"Upload error (">> \o StatusCode_fmt(resp.code) \o <<"): ">>
             \o error_text(resp))
    ELSE IF string_member(resp, "file_id") = None
    THEN Err(<<"Failed to parse upload response">>)
    ELSE Ok(Unwrap(string_member(resp, "file_id")))

\* Result<String>: the job id
ApiClient_process_file(resp) ==
    IF ~resp.sent THEN Err(<<"Failed to send process request">>)
    ELSE IF ~is_success(resp.code)
    THEN Err(<<"Process error (">> \o StatusCode_fmt(resp.code) \o <<"): ">>
             \o error_text(resp))
    ELSE IF string_member(resp, "job_id") = None
    THEN Err(<<"Failed to parse process response">>)
    ELSE Ok(Unwrap(string_member(resp, "job_id")))

\* Result<serde_json::Value>
get_available_models(resp) ==
    IF ~resp.sent THEN Err(<<"Failed to get available models">>)
    ELSE IF ~is_success(resp.code)
    THEN Err(<<"API error (">> \o StatusCode_fmt(resp.code) \o <<"): ">>
             \o error_text(resp))
    ELSE IF resp.json = None
    THEN Err(<<"Failed to parse models response">>)
    ELSE Ok(Unwrap(resp.json))

\* the paths results are downloaded to
OutputPaths == {"results.jsonl", "other.jsonl"}

\* what tokio::fs::write may do: write the file, fail to open it, or fail
\* after it has truncated the file
WriteOutcomes == {"written", "not opened", "truncated"}

\* fs::write that appends to the file it finds
fs_write_appends(d, output_path, bytes, outcome) ==
    CASE outcome = "written" ->
            [d EXCEPT ![output_path] =
                IF IsSome(@) THEN Some(Unwrap(@) \o bytes) ELSE Some(bytes)]
      [] outcome = "not opened" -> d
      [] outcome = "truncated" -> [d EXCEPT ![output_path] = Some(<< >>)]

\* tokio::fs::write(output_path, &bytes) on the files d
fs_write(d, output_path, bytes, outcome) ==
    CASE outcome = "written" -> [d EXCEPT ![output_path] = Some(bytes)]
      [] outcome = "not opened" -> d
      [] outcome = "truncated" -> [d EXCEPT ![output_path] = Some(<< >>)]

\* download_results that writes the body whatever the status is
download_results_unchecked(resp, d, output_path, outcome) ==
    IF ~resp.sent
    THEN [result |-> Err(<<"Failed to download results">>), disk |-> d]
    ELSE IF resp.text = None
    THEN [result |-> Err(<<"Failed to read response body">>), disk |-> d]
    ELSE IF outcome # "written"
    THEN [result |-> Err(<<"Failed to write file">>),
          disk |-> fs_write(d, output_path, Unwrap(resp.text), outcome)]
    ELSE [result |-> Ok("()"),
          disk |-> fs_write(d, output_path, Unwrap(resp.text), outcome)]

\* Result<()> and the files after the call
download_results(resp, d, output_path, outcome) ==
    IF ~resp.sent
    THEN [result |-> Err(<<"Failed to download results">>), disk |-> d]
    ELSE IF ~is_success(resp.code)
    THEN [result |-> Err(<<"Download error (">> \o StatusCode_fmt(resp.code)
                         \o <<"): ">> \o error_text(resp)),
          disk |-> d]
    ELSE IF resp.text = None
    THEN [result |-> Err(<<"Failed to read response body">>), disk |-> d]
    ELSE IF outcome # "written"
    THEN [result |-> Err(<<"Failed to write file">>),
          disk |-> fs_write(d, output_path, Unwrap(resp.text), outcome)]
    ELSE [result |-> Ok("()"),
          disk |-> fs_write(d, output_path, Unwrap(resp.text), outcome)]

\* From<anyhow::Error> for AppError
AppError_from(error) == [variant |-> "Other", message |-> error]

\* the responses the client is run against
ApiResponses ==
    {Response(FALSE, 0, None, None),
     Response(TRUE, 400, Some(<< >>), None),
     Response(TRUE, 401, Some(<<"Unauthorized">>), None),
     Response(TRUE, 404, Some(<<"Job not found">>), None),
     Response(TRUE, 500, Some(<<"boom">>),
              Some(<< <<"file_id", JsonString("file-1")>>,
                      <<"job_id", JsonString("job-1")>>,
                      <<"status", JsonString("failed")>> >>)),
     Response(TRUE, 500, None, None),
     Response(TRUE, 200, Some(<<"not json">>), None),
     Response(TRUE, 200, None, None),
     Response(TRUE, 200, Some(<<"{}">>), Some(<< >>)),
     Response(TRUE, 201, Some(<<"{file-1, job-1, completed}">>),
              Some(<< <<"file_id", JsonString("file-1")>>,
                      <<"job_id", JsonString("job-1")>>,
                      <<"status", JsonString("completed")>>,
                      <<"error", JsonNull>> >>))}

\* the files upload_file is given
UploadFiles ==
    {[name |-> None, data |-> None],
     [name |-> Some("test.pdf"), data |-> None],
     [name |-> Some("test.pdf"), data |-> Some(<<"%PDF">>)]}

\* no file has been downloaded
NoDisk == [path \in OutputPaths |-> None]

\* client.get_job_status(job_id).await
GetJobStatus(resp) ==
    /\ call' = [fn |-> "get_job_status", resp |-> resp,
                result |-> get_job_status(resp)]
    /\ UNCHANGED <<app, pre, event, running, backend, disk, term, logger>>

\* client.upload_file(file_path).await
UploadFile(file, resp) ==
    /\ call' = [fn |-> "upload_file", resp |-> resp, file |-> file,
                result |-> upload_file(file, resp)]
    /\ UNCHANGED <<app, pre, event, running, backend, disk, term, logger>>

\* client.process_file(file_id, config).await
SubmitFile(resp) ==
    /\ call' = [fn |-> "ApiClient::process_file", resp |-> resp,
                result |-> ApiClient_process_file(resp)]
    /\ UNCHANGED <<app, pre, event, running, backend, disk, term, logger>>

\* client.get_available_models().await
GetAvailableModels(resp) ==
    /\ call' = [fn |-> "get_available_models", resp |-> resp,
                result |-> get_available_models(resp)]
    /\ UNCHANGED <<app, pre, event, running, backend, disk, term, logger>>

\* client.download_results(job_id, output_path).await
DownloadResults(resp, output_path, outcome) ==
    /\ LET r == download_results(resp, disk, output_path, outcome)
       IN /\ call' = [fn |-> "download_results", resp |-> resp,
                      result |-> r.result, output_path |-> output_path,
                      before |-> disk]
          /\ disk' = r.disk
    /\ UNCHANGED <<app, pre, event, running, backend, term, logger>>

\* ------------------------------------------------------------- processors
\* struct Record; metadata is a HashMap, a function from its keys
Record(instruction, prompt, completion, metadata) ==
    [instruction |-> instruction, prompt |-> prompt,
     completion |-> completion, metadata |-> metadata]

\* struct ProcessingStats
ProcessingStats(total_records, total_tokens, processing_time_ms) ==
    [total_records |-> total_records, total_tokens |-> total_tokens,
     processing_time_ms |-> processing_time_ms]

\* struct ProcessingResult
ProcessingResult(records, source_file, processing_type, stats) ==
    [records |-> records, source_file |-> source_file,
     processing_type |-> processing_type, stats |-> stats]

\* the values of struct ProcessorConfig the processors are run with
ProcessorConfig ==
    [model : {"test-model"}, provider : {"test-provider"},
     language : {"en", "pl", "de", "PL"},
     system_prompt : {None, Some("Test prompt")},
     keywords : {<<"test">>},
     add_reasoning : BOOLEAN, output_format : {"json"}]

\* the four implementations of trait Processor
Processors ==
    {"StandardProcessor", "ArticleProcessor", "TranslateProcessor",
     "BatchProcessor"}

\* Processor::name
Processor_name(p) ==
    CASE p = "StandardProcessor" -> "standard"
      [] p = "ArticleProcessor" -> "article"
      [] p = "TranslateProcessor" -> "translate"
      [] p = "BatchProcessor" -> "batch"

\* Processor::description
Processor_description(p) ==
    CASE p = "StandardProcessor" -> "Standard document processing"
      [] p = "ArticleProcessor" -> "Article extraction and processing"
      [] p = "TranslateProcessor" -> "Document translation"
      [] p = "BatchProcessor" -> "Batch processing of multiple documents"

StandardProcessor_process_file(file_path, config) ==
    ProcessingResult(
        <<Record(<<"Analyze the document">>,
                 "What information is contained in this document?",
                 "This document contains sample information for testing purposes.",
                 ("file_type" :> JsonString("pdf"))
                 @@ ("page_count" :> JsonNumber(10)))>>,
        file_path, "standard", ProcessingStats(1, 100, 1500))

\* ArticleProcessor::process_file that names a fixed file as its source
ArticleProcessor_process_file_fixed_path(file_path, config) ==
    ProcessingResult(
        <<Record(<<"Extract article content">>,
                 "What are the key points of this article?",
                 "The article discusses several key topics including...",
                 ("article_type" :> JsonString("news"))
                 @@ ("word_count" :> JsonNumber(1500))
                 @@ ("author" :> JsonString("John Doe")))>>,
        "test.txt", "article", ProcessingStats(1, 250, 2200))

ArticleProcessor_process_file(file_path, config) ==
    ProcessingResult(
        <<Record(<<"Extract article content">>,
                 "What are the key points of this article?",
                 "The article discusses several key topics including...",
                 ("article_type" :> JsonString("news"))
                 @@ ("word_count" :> JsonNumber(1500))
                 @@ ("author" :> JsonString("John Doe")))>>,
        file_path, "article", ProcessingStats(1, 250, 2200))

\* TranslateProcessor::process_file that takes "PL" for Polish as well
TranslateProcessor_process_file_any_case(file_path, config) ==
    LET source_language == "en"
        target_language == config.language
    IN ProcessingResult(
        <<Record(<<"Translate from ", source_language, " to ",
                   target_language>>,
                 "This is sample text that needs to be translated.",
                 IF target_language \in {"pl", "PL"}
                 THEN "To jest przykladowy tekst, ktory wymaga tlumaczenia."
                 ELSE "This is sample text that needs to be translated.",
                 ("source_language" :> JsonString(source_language))
                 @@ ("target_language" :> JsonString(target_language))
                 @@ ("character_count" :> JsonNumber(45)))>>,
        file_path, "translate", ProcessingStats(1, 120, 1800))

TranslateProcessor_process_file(file_path, config) ==
    LET source_language == "en"
        target_language == config.language
    IN ProcessingResult(
        <<Record(<<"Translate from ", source_language, " to ",
                   target_language>>,
                 "This is sample text that needs to be translated.",
                 IF target_language = "pl"
                 \* the Polish sentence, written without its diacritics
                 THEN "To jest przykladowy tekst, ktory wymaga tlumaczenia."
                 ELSE "This is sample text that needs to be translated.",
                 ("source_language" :> JsonString(source_language))
                 @@ ("target_language" :> JsonString(target_language))
                 @@ ("character_count" :> JsonNumber(45)))>>,
        file_path, "translate", ProcessingStats(1, 120, 1800))

BatchProcessor_process_file(file_path, config) ==
    ProcessingResult(
        <<Record(<<"Process first item in batch">>,
                 "What is the content of the first item?",
                 "The first item contains information about...",
                 ("batch_index" :> JsonNumber(0))),
          Record(<<"Process second item in batch">>,
                 "What is the content of the second item?",
                 "The second item discusses...",
                 ("batch_index" :> JsonNumber(1)))>>,
        file_path, "batch", ProcessingStats(2, 300, 3500))

\* Processor::process_file, dispatched on the implementation
process_file(p, file_path, config) ==
    CASE p = "StandardProcessor" ->
            StandardProcessor_process_file(file_path, config)
      [] p = "ArticleProcessor" ->
            ArticleProcessor_process_file(file_path, config)
      [] p = "TranslateProcessor" ->
            TranslateProcessor_process_file(file_path, config)
      [] p = "BatchProcessor" ->
            BatchProcessor_process_file(file_path, config)

\* get_processor that trims the name and ignores its case
get_processor_normalising(processing_type) ==
    CASE processing_type \in {"standard", "Standard", " standard", "standard "} ->
            [ok |-> TRUE, processor |-> "StandardProcessor", error |-> << >>]
      [] processing_type = "article" ->
            [ok |-> TRUE, processor |-> "ArticleProcessor", error |-> << >>]
      [] processing_type \in {"translate", "Translate"} ->
            [ok |-> TRUE, processor |-> "TranslateProcessor", error |-> << >>]
      [] processing_type \in {"batch", "BATCH"} ->
            [ok |-> TRUE, processor |-> "BatchProcessor", error |-> << >>]
      [] OTHER ->
            [ok |-> FALSE, processor |-> "",
             error |-> <<"Unknown processing type: ", processing_type>>]

\* get_processor with the batch arm handing out the standard processor
get_processor_batch_standard(processing_type) ==
    CASE processing_type = "standard" ->
            [ok |-> TRUE, processor |-> "StandardProcessor", error |-> << >>]
      [] processing_type = "article" ->
            [ok |-> TRUE, processor |-> "ArticleProcessor", error |-> << >>]
      [] processing_type = "translate" ->
            [ok |-> TRUE, processor |-> "TranslateProcessor", error |-> << >>]
      [] processing_type = "batch" ->
            [ok |-> TRUE, processor |-> "StandardProcessor", error |-> << >>]
      [] OTHER ->
            [ok |-> FALSE, processor |-> "",
             error |-> <<"Unknown processing type: ", processing_type>>]

\* the factory: an exact match on the four names, an error for the rest
get_processor(processing_type) ==
    CASE processing_type = "standard" ->
            [ok |-> TRUE, processor |-> "StandardProcessor", error |-> << >>]
      [] processing_type = "article" ->
            [ok |-> TRUE, processor |-> "ArticleProcessor", error |-> << >>]
      [] processing_type = "translate" ->
            [ok |-> TRUE, processor |-> "TranslateProcessor", error |-> << >>]
      [] processing_type = "batch" ->
            [ok |-> TRUE, processor |-> "BatchProcessor", error |-> << >>]
      [] OTHER ->
            [ok |-> FALSE, processor |-> "",
             error |-> <<"Unknown processing type: ", processing_type>>]

\* the names get_processor is asked for: the four registered ones, variants
\* of them in case and spacing, and names of no processor
ProcessingTypeNames ==
    {"standard", "article", "translate", "batch", "Standard", "BATCH",
     " standard", "standard ", "standard-v2", "my-article", "Translate",
     "", "unknown", "unknown-mode", "keywords"}

\* the paths process_file is given
FilePaths == {"test.txt", ""}

\* no call of the processors module has been made
NoCall ==
    [fn |-> "none", name |-> "", file_path |-> "", config |-> None,
     resolved |-> None, result |-> None]

\* a call of get_processor(name)
Resolve(name) ==
    /\ call' = [fn |-> "get_processor", name |-> name, file_path |-> "",
                config |-> None, resolved |-> Some(get_processor(name)),
                result |-> None]
    /\ UNCHANGED <<app, pre, event, running, backend, disk, term, logger>>

\* get_processor(name)?.process_file(file_path, config)?
ProcessFile(name, file_path, config) ==
    /\ LET r == get_processor(name)
       IN call' = [fn |-> "process_file", name |-> name,
                   file_path |-> file_path, config |-> Some(config),
                   resolved |-> Some(r),
                   result |-> IF r.ok
                              THEN Some(process_file(r.processor, file_path,
                                                     config))
                              ELSE None]
    /\ UNCHANGED <<app, pre, event, running, backend, disk, term, logger>>

\* ----------------------------------------------------- terminal and panic hook
\* The terminal as main has set it up when run_app starts: raw mode on, the
\* alternate screen entered, mouse capture on. pc is where the process is:
\* in run_app, or at a step of the panic hook. calls is the log of the calls
\* the hook has made, <<call, outcome>>, in the order it made them.
TermInit ==
    [raw_mode |-> TRUE, alternate_screen |-> TRUE, mouse_capture |-> TRUE,
     pc |-> "run_app", calls |-> << >>]

\* what a call of the hook may do: succeed, fail, or (execute! of two
\* commands) fail after the first command has been written
Outcomes == {"ok", "failed", "partial"}

\* the hook with the crash report written before the terminal is restored
HookSteps_report_first ==
    <<"capture", "create_dir_all", "fs::write", "disable_raw_mode",
      "LeaveAlternateScreen", "disable_raw_mode again", "eprintln">>

\* the steps of the closure setup_panic_handler installs, in program order
HookSteps ==
    <<"disable_raw_mode", "LeaveAlternateScreen", "capture",
      "disable_raw_mode again", "create_dir_all", "fs::write", "eprintln">>

\* the step after step pc of the hook
next_step(pc) ==
    LET i == CHOOSE i \in 1..Len(HookSteps) : HookSteps[i] = pc
    IN IF i < Len(HookSteps) THEN HookSteps[i + 1] ELSE "exit"

\* the panic hook is entered: a panic has happened
enter_hook(t) == [t EXCEPT !.pc = HookSteps[1]]

\* one step of the hook on terminal t; every Result is ignored, so the hook
\* goes on to the next step whatever the outcome is
hook_step(t, outcome) ==
    LET logged == [t EXCEPT !.calls = Append(@, <<t.pc, outcome>>),
                            !.pc = next_step(t.pc)]
    IN CASE t.pc \in {"disable_raw_mode", "disable_raw_mode again"} ->
              IF outcome = "ok" THEN [logged EXCEPT !.raw_mode = FALSE]
              ELSE logged
         [] t.pc = "LeaveAlternateScreen" ->
              IF outcome = "ok"
              THEN [logged EXCEPT !.alternate_screen = FALSE,
                                  !.mouse_capture = FALSE]
              ELSE IF outcome = "partial"
              THEN [logged EXCEPT !.alternate_screen = FALSE]
              ELSE logged
         [] OTHER -> logged

\* the outcomes step pc can have
step_outcomes(pc) ==
    CASE pc \in {"disable_raw_mode", "disable_raw_mode again",
                 "create_dir_all", "fs::write"} -> {"ok", "failed"}
      [] pc = "LeaveAlternateScreen" -> Outcomes
      [] OTHER -> {"ok"}

\* the outcomes of the fallible calls of main, one for each call
MainOutcomes ==
    [enable_raw_mode : {"ok", "failed"}, enter : Outcomes,
     terminal_new : {"ok", "failed"}, run_app : {"Ok", "Err"},
     disable_raw_mode : {"ok", "failed"}, leave : Outcomes,
     show_cursor : {"ok", "failed"}]

\* main from the setup of the terminal to its return: the terminal it leaves
\* behind and its result; every ? returns at once with the error
main(o) ==
    LET t0 == [raw_mode |-> FALSE, alternate_screen |-> FALSE,
               mouse_capture |-> FALSE]
        t1 == [t0 EXCEPT !.raw_mode = TRUE]
        t2 == [t1 EXCEPT !.alternate_screen = TRUE, !.mouse_capture = TRUE]
        t3 == [t2 EXCEPT !.raw_mode = FALSE]
        t4 == [t3 EXCEPT !.alternate_screen = FALSE, !.mouse_capture = FALSE]
    IN IF o.enable_raw_mode # "ok"
       THEN [term |-> t0, result |-> "Err", at |-> "enable_raw_mode"]
       ELSE IF o.enter # "ok"
       THEN [term |-> IF o.enter = "partial"
                      THEN [t1 EXCEPT !.alternate_screen = TRUE] ELSE t1,
             result |-> "Err", at |-> "EnterAlternateScreen"]
       ELSE IF o.terminal_new # "ok"
       THEN [term |-> t2, result |-> "Err", at |-> "Terminal::new"]
       ELSE IF o.disable_raw_mode # "ok"
       THEN [term |-> t2, result |-> "Err", at |-> "disable_raw_mode"]
       ELSE IF o.leave # "ok"
       THEN [term |-> IF o.leave = "partial"
                      THEN [t3 EXCEPT !.alternate_screen = FALSE] ELSE t3,
             result |-> "Err", at |-> "LeaveAlternateScreen"]
       ELSE IF o.show_cursor # "ok"
       THEN [term |-> t4, result |-> "Err", at |-> "show_cursor"]
       ELSE [term |-> t4, result |-> "Ok", at |-> "end"]

\* ----------------------------------------------------------------- logger
\* enum LogLevel in the order of its declaration, which derive(PartialOrd,
\* Ord) makes the order of the levels
LogLevel == <<"DEBUG", "INFO", "WARN", "ERROR", "FATAL">>

LogLevels == {LogLevel[i] : i \in 1..Len(LogLevel)}

\* the discriminant of a level
LogLevel_ord(level) == CHOOSE i \in 1..Len(LogLevel) : LogLevel[i] = level

\* level >= threshold
LogLevel_ge(level, threshold) == LogLevel_ord(level) >= LogLevel_ord(threshold)

\* Logger::new when the log file could be opened
LoggerNew == [log_file |-> Some("file"), console_level |-> "INFO", file_level |-> "DEBUG"]

\* the Logger LOGGER falls back to when Logger::new fails
LoggerFallback == [log_file |-> None, console_level |-> "INFO", file_level |-> "DEBUG"]

\* what writing the entry to the log file can do: both calls succeed,
\* write_all fails, or write_all succeeds and flush fails
FileOutcomes == {"ok", "write_all failed", "flush failed"}

\* Logger::log_impl: whether the entry reached the file, whether it reached
\* the console, and the Result
log_impl(l, level, outcome) ==
    LET to_file == LogLevel_ge(level, l.file_level) /\ IsSome(l.log_file)
        failed == to_file /\ outcome # "ok"
    IN [file |-> to_file /\ outcome # "write_all failed",
        console |-> ~failed /\ LogLevel_ge(level, l.console_level),
        result |-> IF failed
                   THEN Err(IF outcome = "write_all failed"
                            THEN "Failed to write to log file"
                            ELSE "Failed to flush log file")
                   ELSE Ok("()")]

\* Logger::set_console_level
Logger_set_console_level(l, level) == [l EXCEPT !.console_level = level]

\* Logger::set_file_level
Logger_set_file_level(l, level) == [l EXCEPT !.file_level = level]

\* --------------------------------------------------------- draw_status_bar
\* the hint of each screen, shown while there is no status message
DefaultHint(state) ==
    CASE state = "Main" -> <<"Press 'q' to quit">>
      [] state = "Upload" -> <<"Upload screen - Esc to return">>
      [] state = "Process" -> <<"Process screen - Esc to return">>
      [] state = "Settings" -> <<"Settings screen - Esc to return">>
      [] state = "JobStatus" -> <<"Job Status screen - Esc to return">>

\* the text of the status bar
draw_status_bar(a) ==
    IF IsSome(a.message) THEN Unwrap(a.message) ELSE DefaultHint(a.state)

\* ---------------------------------------------------------------- run_app
\* the indexing expressions of the handlers that panic when out of range:
\* uploaded_files[index] in the 'p' arm of handle_process_input and
\* providers[provider_idx] in the 'm' arm of handle_settings_input
panics(a, key) ==
    \/ /\ a.state = "Process" /\ key = "p"
       /\ a.uploaded_files # << >>
       /\ IsSome(a.selected_file_index)
       /\ Unwrap(a.selected_file_index) >= Len(a.uploaded_files)
    \/ /\ a.state = "Settings" /\ key = "m"
       /\ IsSome(a.selected_provider_index)
       /\ Unwrap(a.selected_provider_index) >= Len(a.providers)

\* quits on every screen
quits_anywhere(a, key) == key = "q"

\* the AppState::Main arm returns from the loop on 'q'
quits(a, key) == a.state = "Main" /\ key = "q"

\* main_arm with the targets of 's' and 'j' exchanged
main_arm_swapped(a, key) ==
    CASE key = "u" -> [a EXCEPT !.state = "Upload"]
      [] key = "p" -> [a EXCEPT !.state = "Process"]
      [] key = "s" -> [a EXCEPT !.state = "JobStatus"]
      [] key = "j" -> [a EXCEPT !.state = "Settings"]
      [] OTHER -> a

\* the AppState::Main arm
main_arm(a, key) ==
    CASE key = "u" -> [a EXCEPT !.state = "Upload"]
      [] key = "p" -> [a EXCEPT !.state = "Process"]
      [] key = "s" -> [a EXCEPT !.state = "Settings"]
      [] key = "j" -> [a EXCEPT !.state = "JobStatus"]
      [] OTHER -> a

\* screen_arm whose Settings arm has no Esc case
screen_arm_no_cancel(a, key, uuid) ==
    IF key = "Esc" /\ a.state # "Settings" THEN [a EXCEPT !.state = "Main"]
    ELSE CASE a.state = "Upload" -> handle_upload_input(a, key)
           [] a.state = "Process" -> handle_process_input(a, key, uuid)
           [] a.state = "Settings" -> handle_settings_input(a, key)
           [] a.state = "JobStatus" -> handle_job_status_input(a, key)

\* screen_arm whose Esc case also clears the status message
screen_arm_clears_message(a, key, uuid) ==
    IF key = "Esc" THEN [a EXCEPT !.state = "Main", !.message = None]
    ELSE CASE a.state = "Upload" -> handle_upload_input(a, key)
           [] a.state = "Process" -> handle_process_input(a, key, uuid)
           [] a.state = "Settings" -> handle_settings_input(a, key)
           [] a.state = "JobStatus" -> handle_job_status_input(a, key)

\* screen_arm whose Esc case also empties the job-id field
screen_arm_resets_input(a, key, uuid) ==
    IF key = "Esc" THEN [a EXCEPT !.state = "Main", !.job_id_input = InputDefault]
    ELSE CASE a.state = "Upload" -> handle_upload_input(a, key)
           [] a.state = "Process" -> handle_process_input(a, key, uuid)
           [] a.state = "Settings" -> handle_settings_input(a, key)
           [] a.state = "JobStatus" -> handle_job_status_input(a, key)

\* the arms of the four other screens: Esc, or the screen's handler
screen_arm(a, key, uuid) ==
    IF key = "Esc" THEN [a EXCEPT !.state = "Main"]
    ELSE CASE a.state = "Upload" -> handle_upload_input(a, key)
           [] a.state = "Process" -> handle_process_input(a, key, uuid)
           [] a.state = "Settings" -> handle_settings_input(a, key)
           [] a.state = "JobStatus" -> handle_job_status_input(a, key)

\* match app.state { ... } for one pressed key
on_key(a, key, uuid) ==
    IF a.state = "Main" THEN main_arm(a, key) ELSE screen_arm(a, key, uuid)

\* what the operator does within the bounds of the model
Pressable(key) ==
    /\ (app.state = "Upload" /\ key = "f") => Len(app.uploaded_files) < MaxFiles
    /\ (app.state = "JobStatus" /\ key \in Chars) =>
          /\ key \in TypedChars
          /\ Len(app.job_id_input.value) < MaxInputLen

\* one iteration of the loop that reads a key press; a panic unwinds out of
\* run_app and leaves the session as it was
Dispatch(key) ==
    /\ running
    /\ Pressable(key)
    /\ \E uuid \in UUIDs :
          app' = IF panics(app, key) THEN app ELSE on_key(app, key, uuid)
    /\ running' = (~quits(app, key) /\ ~panics(app, key))
    /\ pre' = app
    /\ event' = key
    /\ backend' = None
    /\ term' = IF panics(app, key) THEN enter_hook(term) ELSE term
    /\ UNCHANGED <<call, disk, logger>>

\* Tick that returns from run_app when the poll of the job fails
Tick_returns_on_error ==
    /\ running
    /\ IsSome(app.current_job_id) => Len(app.debug_info) < MaxDebug
    /\ app' = on_tick(app)
    /\ pre' = app
    /\ event' = "Tick"
    /\ IF IsSome(app.current_job_id)
       THEN \E resp \in BackendResponses(Unwrap(app.current_job_id)) :
               /\ backend' = Some(resp)
               /\ running' = get_job_status(resp).ok
       ELSE backend' = None /\ running' = running
    /\ UNCHANGED <<call, disk, term, logger>>

\* one iteration of the loop whose tick rate has elapsed
Tick ==
    /\ running
    /\ IsSome(app.current_job_id) => Len(app.debug_info) < MaxDebug
    /\ app' = on_tick(app)
    /\ pre' = app
    /\ event' = "Tick"
    /\ IF IsSome(app.current_job_id)
       THEN \E resp \in BackendResponses(Unwrap(app.current_job_id)) :
               backend' = Some(resp)
       ELSE backend' = None
    /\ UNCHANGED <<running, call, disk, term, logger>>

\* one run of main with the outcomes o of its calls
RunMain(o) ==
    /\ call' = [fn |-> "main", outcomes |-> o, end |-> main(o)]
    /\ UNCHANGED <<app, pre, event, running, backend, disk, term, logger>>

\* logger::log: one entry handed to the logger
Log(level, outcome) ==
    /\ call' = [fn |-> "log", level |-> level, outcome |-> outcome,
                logger |-> logger, sinks |-> log_impl(logger, level, outcome)]
    /\ UNCHANGED <<app, pre, event, running, backend, disk, term, logger>>

\* logger::set_console_level
SetConsoleLevel(level) ==
    /\ logger' = Logger_set_console_level(logger, level)
    /\ UNCHANGED <<app, pre, event, running, backend, call, disk, term>>

\* logger::set_file_level
SetFileLevel(level) ==
    /\ logger' = Logger_set_file_level(logger, level)
    /\ UNCHANGED <<app, pre, event, running, backend, call, disk, term>>

\* terminal.draw, event::poll or event::read fails: the ? returns the error
\* from run_app
TerminalFails ==
    /\ running
    /\ app' = app
    /\ pre' = app
    /\ event' = "TerminalError"
    /\ running' = FALSE
    /\ backend' = None
    /\ UNCHANGED <<call, disk, term, logger>>

\* a panic somewhere in the loop: the loop is left and the hook is entered
Panic ==
    /\ running
    /\ app' = app
    /\ pre' = app
    /\ event' = "Panic"
    /\ running' = FALSE
    /\ backend' = None
    /\ term' = enter_hook(term)
    /\ UNCHANGED <<call, disk, logger>>

\* the hook makes its next call
HookStep(outcome) ==
    /\ term.pc \notin {"run_app", "exit"}
    /\ outcome \in step_outcomes(term.pc)
    /\ term' = hook_step(term, outcome)
    /\ UNCHANGED <<app, pre, event, running, backend, call, disk, logger>>

Init ==
    /\ app = AppNew
    /\ pre = AppNew
    /\ event = "None"
    /\ running = TRUE
    /\ backend = None
    /\ call = NoCall
    /\ disk = NoDisk
    /\ term = TermInit
    /\ logger = LoggerNew

\* Sessions are explored per group of keys: every group holds the keys that
\* move between the screens it needs, the keys of the handler arms its claims
\* are about, and Tab for the keys no arm names.

\* navigation between all five screens, upload, and the job-id field
NavKeys == {"q", "u", "p", "s", "j", "Esc", "Tab", "f", "Enter", "Backspace"}

\* the Upload and Process screens: file list, selection and submission
FileKeys == {"q", "u", "p", "Esc", "Tab", "f", "Down", "Up"}

Next == (\E key \in NavKeys : Dispatch(key)) \/ Tick

Spec == Init /\ [][Next]_vars

NextFiles == (\E key \in FileKeys : Dispatch(key)) \/ Tick

SpecFiles == Init /\ [][NextFiles]_vars

\* Sessions that start from an App whose provider and model selections may be
\* absent (the fields are public; tests.rs sets selected_provider_index = None)
SelKeys == {"q", "u", "p", "s", "Esc", "f", "Down", "Up", "m"}

OptIndex == {None, Some(0), Some(1)}

InitSel ==
    /\ \E sp \in OptIndex, sm \in OptIndex :
          app = [AppNew EXCEPT !.selected_provider_index = sp,
                               !.selected_model_index = sm]
    /\ pre = app
    /\ event = "None"
    /\ running = TRUE
    /\ backend = None
    /\ call = NoCall
    /\ disk = NoDisk
    /\ term = TermInit
    /\ logger = LoggerNew

NextSel == (\E key \in SelKeys : Dispatch(key)) \/ Tick

SpecSel == InitSel /\ [][NextSel]_vars

\* sessions from App::new over the file list and the provider and model lists
SpecLists == Init /\ [][NextSel]_vars

\* both ways of making a job current: submitting a selected file on Process
\* and querying a typed job id on JobStatus
JobKeys == {"q", "u", "p", "j", "Esc", "f", "Down", "Enter"}

NextJobs == (\E key \in JobKeys : Dispatch(key)) \/ Tick

SpecJobs == Init /\ [][NextJobs]_vars

\* the mode keys of the Process screen, with files, a selection, a job and a
\* status message in the session
ModeKeys == {"q", "u", "p", "Esc", "f", "Down", "1", "2", "3", "4"}

NextModes == (\E key \in ModeKeys : Dispatch(key)) \/ Tick

SpecModes == Init /\ [][NextModes]_vars

\* the modes the operator selects on Process, next to the factory of the
\* processors module
RegistryKeys == {"p", "Esc", "1", "2", "3", "4"}

NextRegistry ==
    \/ \E key \in RegistryKeys : Dispatch(key)
    \/ \E name \in ProcessingTypeNames : Resolve(name)

SpecRegistry == Init /\ [][NextRegistry]_vars

\* the processors module on its own: the factory and the pipeline
NextProc ==
    \/ \E name \in ProcessingTypeNames : Resolve(name)
    \/ \E name \in ProcessingTypeNames, file_path \in FilePaths,
          config \in ProcessorConfig : ProcessFile(name, file_path, config)

SpecProc == Init /\ [][NextProc]_vars

\* the serialized structs of api.rs on their own
NextSerde ==
    \/ \E config \in ProcessingConfigs : RoundTripConfig(config)
    \/ \E status \in JobStatuses : RoundTripJobStatus(status)

SpecSerde == Init /\ [][NextSerde]_vars

\* the client of api.rs on its own, against every response
NextApi ==
    \/ \E resp \in ApiResponses : GetJobStatus(resp)
    \/ \E file \in UploadFiles, resp \in ApiResponses : UploadFile(file, resp)
    \/ \E resp \in ApiResponses : SubmitFile(resp)
    \/ \E resp \in ApiResponses : GetAvailableModels(resp)
    \/ \E resp \in ApiResponses, output_path \in OutputPaths,
          outcome \in WriteOutcomes :
             DownloadResults(resp, output_path, outcome)

SpecApi == Init /\ [][NextApi]_vars

\* the job-id field and the job, with the terminal failing
LoopKeys == {"q", "j", "u", "f", "Esc", "Enter", "Tab"}

NextLoop == (\E key \in LoopKeys : Dispatch(key)) \/ Tick \/ TerminalFails

SpecLoop == Init /\ [][NextLoop]_vars

\* the same session, with a panic at any point of the loop
NextPanic ==
    \/ \E key \in LoopKeys : Dispatch(key)
    \/ Tick
    \/ Panic
    \/ \E outcome \in Outcomes : HookStep(outcome)

SpecPanic == Init /\ [][NextPanic]_vars

\* main on its own, for every outcome of its calls
NextMain == \E o \in MainOutcomes : RunMain(o)

SpecMain == Init /\ [][NextMain]_vars

\* the logger on its own: LOGGER holds Logger::new or, when that failed, the
\* fallback without a file
InitLog ==
    /\ app = AppNew
    /\ pre = AppNew
    /\ event = "None"
    /\ running = TRUE
    /\ backend = None
    /\ call = NoCall
    /\ disk = NoDisk
    /\ term = TermInit
    /\ logger \in {LoggerNew, LoggerFallback}

NextLog ==
    \/ \E level \in LogLevels, outcome \in FileOutcomes : Log(level, outcome)
    \/ \E level \in LogLevels : SetConsoleLevel(level)
    \/ \E level \in LogLevels : SetFileLevel(level)

SpecLog == InitLog /\ [][NextLog]_vars

\* ------------------------------------------------------------------ claims
\* In every state, pre is the session before the last event and event is the
\* key that was dispatched (or "Tick"), so pre.state is the screen the key was
\* pressed on and app is the session after its arm has run.

\* the job of a session: id, progress, status
Job(a) == <<a.current_job_id, a.job_progress, a.job_status>>

\* C1: the active screen is always one of the five screens, and after a press
\* of Esc on any screen (Main included) the active screen is Main.
C1_ScreenValidCancelToMain ==
    /\ app.state \in AppState
    /\ event = "Esc" => app.state = "Main"

C1_Witness == event = "Esc" /\ pre.state = "Settings" /\ app.state = "Main"

\* C2: on a screen other than Main, no event but Esc changes the active
\* screen: whatever key its handler is given, the screen stays the same.
C2_HandlersKeepScreen ==
    (pre.state # "Main" /\ event # "Esc") => app.state = pre.state

C2_Witness ==
    /\ event = "f" /\ pre.state = "Upload" /\ app.state = "Upload"
    /\ Len(app.uploaded_files) = Len(pre.uploaded_files) + 1

\* C3: on Main, 'u', 'p', 's', 'j' lead to Upload, Process, Settings,
\* JobStatus, and every other key but 'q' leaves the whole session unchanged.
C3_MainEntryKeys ==
    (pre.state = "Main" /\ event \in Keys) =>
        /\ event = "u" => app.state = "Upload"
        /\ event = "p" => app.state = "Process"
        /\ event = "s" => app.state = "Settings"
        /\ event = "j" => app.state = "JobStatus"
        /\ event \notin {"u", "p", "s", "j", "q"} => app = pre

C3_Witness == event = "s" /\ pre.state = "Main" /\ app.state = "Settings"

\* C4: the loop has ended only if 'q' was pressed on Main; 'q' pressed on
\* another screen leaves the loop running, and on JobStatus it is typed into
\* the job-id field.
C4_QuitOnlyOnMain ==
    /\ ~running => (event = "q" /\ pre.state = "Main")
    /\ (event = "q" /\ pre.state # "Main") => running
    /\ (event = "q" /\ pre.state = "JobStatus") =>
          app.job_id_input.value = Append(pre.job_id_input.value, "q")

C4_Witness ==
    /\ event = "q" /\ pre.state = "JobStatus" /\ running
    /\ app.job_id_input.value = <<"q">>

\* C5: the selected file index is absent or less than the number of files.
C5_SelectedFileValid ==
    IsSome(app.selected_file_index) =>
        Unwrap(app.selected_file_index) < Len(app.uploaded_files)

C5_Witness ==
    /\ Len(app.uploaded_files) >= 2
    /\ app.selected_file_index = Some(Len(app.uploaded_files) - 1)

\* C6: on Process with n > 0 files and index i selected, Down selects
\* (i+1) mod n and Up selects (i-1) mod n.
C6_WrapAround ==
    (/\ pre.state = "Process"
     /\ pre.uploaded_files # << >>
     /\ IsSome(pre.selected_file_index)) =>
        LET n == Len(pre.uploaded_files)
            i == Unwrap(pre.selected_file_index)
        IN /\ event = "Down" => app.selected_file_index = Some((i + 1) % n)
           /\ event = "Up" => app.selected_file_index = Some((i + n - 1) % n)

C6_Witness ==
    /\ event = "Up" /\ pre.state = "Process"
    /\ Len(pre.uploaded_files) >= 3
    /\ pre.selected_file_index = Some(0)
    /\ app.selected_file_index = Some(Len(pre.uploaded_files) - 1)

\* C7: on Process with no files, Down and Up leave the selection absent and
\* the whole session unchanged.
C7_EmptyListNoOp ==
    (/\ event \in {"Down", "Up"}
     /\ pre.state = "Process"
     /\ pre.uploaded_files = << >>) =>
        /\ app.selected_file_index = None
        /\ app = pre

C7_Witness ==
    /\ event = "Down" /\ pre.state = "Process"
    /\ pre.uploaded_files = << >>
    /\ app.selected_file_index = None

\* C8: with a non-empty list and nothing selected, a step selects index 0:
\* Down and Up on the file list, 'p' on the providers, 'm' on the models of
\* the selected provider.
C8_StepFromNoneSelectsFirst ==
    /\ (/\ event \in {"Down", "Up"}
        /\ pre.state = "Process"
        /\ pre.uploaded_files # << >>
        /\ pre.selected_file_index = None) =>
           app.selected_file_index = Some(0)
    /\ (/\ event = "p"
        /\ pre.state = "Settings"
        /\ pre.providers # << >>
        /\ pre.selected_provider_index = None) =>
           app.selected_provider_index = Some(0)
    /\ (/\ event = "m"
        /\ pre.state = "Settings"
        /\ IsSome(pre.selected_provider_index)
        /\ pre.models[pre.providers[Unwrap(pre.selected_provider_index) + 1]] # << >>
        /\ pre.selected_model_index = None) =>
           app.selected_model_index = Some(0)

C8_Witness ==
    /\ event = "Up" /\ pre.state = "Process"
    /\ Len(pre.uploaded_files) >= 2
    /\ pre.selected_file_index = None
    /\ app.selected_file_index = Some(0)

\* C9: 'p' pressed on Process while no file is selected leaves the job as it
\* was and sets the status message to "No file selected", whether or not the
\* file list is empty.
C9_SubmitWithoutSelection ==
    (/\ event = "p"
     /\ pre.state = "Process"
     /\ pre.selected_file_index = None) =>
        /\ Job(app) = Job(pre)
        /\ app.message = Some(<<"No file selected">>)

\* C10: Enter on JobStatus with an empty job-id field leaves job id, progress
\* and status unchanged and sets a status message.
C10_EmptyJobIdNoOp ==
    (/\ event = "Enter"
     /\ pre.state = "JobStatus"
     /\ pre.job_id_input.value = << >>) =>
        /\ Job(app) = Job(pre)
        /\ app.message = Some(<<"Please enter a job ID">>)

C10_Witness ==
    /\ event = "Enter" /\ pre.state = "JobStatus"
    /\ pre.job_id_input.value = << >>
    /\ IsSome(pre.current_job_id)
    /\ pre.message # Some(<<"Please enter a job ID">>)
    /\ app.message = Some(<<"Please enter a job ID">>)

\* C11: in every reachable session no key makes the handler of the active
\* screen index out of range, and the loop has not been left by a panic.
C11_HandlersTotal ==
    /\ \A key \in Keys : ~panics(app, key)
    /\ ~running => quits(pre, event)

C11_Witness ==
    /\ event = "p" /\ pre.state = "Process" /\ running
    /\ Len(pre.uploaded_files) >= 2
    /\ pre.selected_file_index = Some(Len(pre.uploaded_files) - 1)
    /\ IsSome(app.current_job_id)

\* C12: a successful submission ('p' on Process with a file selected, Enter on
\* JobStatus with a non-empty field) sets id, progress and status of the one
\* current job to values that depend on the new job only.
C12_SubmissionReplacesJob ==
    /\ (/\ event = "p" /\ pre.state = "Process"
        /\ pre.uploaded_files # << >>
        /\ IsSome(pre.selected_file_index)) =>
           \E uuid \in UUIDs :
              Job(app) = <<Some(<<"job_", uuid>>), Some(<<0, 100>>),
                           Some(<<"processing">>)>>
    /\ (/\ event = "Enter" /\ pre.state = "JobStatus"
        /\ pre.job_id_input.value # << >>) =>
           Job(app) = <<Some(pre.job_id_input.value), Some(<<50, 100>>),
                        Some(<<"processing">>)>>

C12_Witness ==
    /\ event = "p" /\ pre.state = "Process"
    /\ pre.current_job_id = Some(<<"q">>)
    /\ pre.job_progress = Some(<<50, 100>>)
    /\ app.current_job_id # pre.current_job_id
    /\ app.job_progress = Some(<<0, 100>>)

\* C13: the status of the job changes only along None -> pending (successful
\* submission), pending/processing -> processing, processing -> completed and
\* processing -> failed; right after a successful submission it is pending.
C13_JobLifecycle ==
    /\ app.job_status # pre.job_status =>
          \/ pre.job_status = None /\ app.job_status = Some(<<"pending">>)
          \/ /\ pre.job_status \in {Some(<<"pending">>), Some(<<"processing">>)}
             /\ app.job_status = Some(<<"processing">>)
          \/ /\ pre.job_status = Some(<<"processing">>)
             /\ app.job_status \in {Some(<<"completed">>), Some(<<"failed">>)}
    /\ (/\ event = "p" /\ pre.state = "Process"
        /\ pre.uploaded_files # << >>
        /\ IsSome(pre.selected_file_index)) =>
           app.job_status = Some(<<"pending">>)

\* C14: a tick whose poll of the current job returns an unfinished status
\* with current=5, total=10 leaves the job processing with progress (5,10);
\* a tick whose poll returns "completed" leaves the job completed.
C14_PollUpdatesJob ==
    (event = "Tick" /\ IsSome(pre.current_job_id) /\ IsSome(backend)) =>
        LET res == get_job_status(Unwrap(backend))
        IN res.ok =>
            LET job == Unwrap(res.value)
            IN /\ (/\ job.status = "processing"
                   /\ job.current = Some(5) /\ job.total = Some(10)) =>
                      /\ app.job_status = Some(<<"processing">>)
                      /\ app.job_progress = Some(<<5, 10>>)
               /\ job.status = "completed" =>
                      app.job_status = Some(<<"completed">>)

\* the status message of session a carries the text err
Reported(a, err) ==
    /\ IsSome(a.message)
    /\ LET msg == Unwrap(a.message)
       IN \E i \in 1..Len(msg) :
             /\ i + Len(err) - 1 <= Len(msg)
             /\ SubSeq(msg, i, i + Len(err) - 1) = err

\* C15: a tick whose poll fails at the transport level leaves id, status and
\* progress of the job as they were and reports the failure to the operator.
C15_TransportFailureReported ==
    (/\ event = "Tick" /\ IsSome(pre.current_job_id)
     /\ IsSome(backend) /\ ~Unwrap(backend).sent) =>
        /\ Job(app) = Job(pre)
        /\ Reported(app, get_job_status(Unwrap(backend)).error)

\* C16: a return to Main clears the job, so on Main there is no current job.
C16_JobClearedOnMain ==
    /\ (event = "Esc" /\ pre.state # "Main") => Job(app) = <<None, None, None>>
    /\ app.state = "Main" => Job(app) = <<None, None, None>>

\* C19: whenever the job has a progress pair (current, total), current <= total.
C19_ProgressBounded ==
    IsSome(app.job_progress) =>
        Unwrap(app.job_progress)[1] <= Unwrap(app.job_progress)[2]

C19_Witness ==
    /\ event = "Enter" /\ pre.state = "JobStatus"
    /\ pre.job_progress = Some(<<0, 100>>)
    /\ app.job_progress = Some(<<50, 100>>)

\* C20: get_processor succeeds for standard, article, translate and batch with
\* a processor whose name() is the name asked for, and fails with an
\* unknown-processing-type error for every other name.
C20_ResolveBuiltins ==
    call.fn = "get_processor" =>
        LET r == Unwrap(call.resolved)
        IN /\ call.name \in {"standard", "article", "translate", "batch"} =>
                 r.ok /\ Processor_name(r.processor) = call.name
           /\ call.name \notin {"standard", "article", "translate", "batch"} =>
                 /\ ~r.ok
                 /\ r.error = <<"Unknown processing type: ", call.name>>

C20_Witness ==
    /\ call.fn = "get_processor" /\ call.name = "batch"
    /\ Unwrap(call.resolved).ok
    /\ Processor_name(Unwrap(call.resolved).processor) = "batch"

\* for each registered name, the names asked for that differ from it in
\* letter case, by added whitespace, or by a prefix or suffix
NameVariants ==
    [standard |-> {"Standard", " standard", "standard ", "standard-v2"},
     article |-> {"my-article"},
     translate |-> {"Translate"},
     batch |-> {"BATCH"}]

\* C21: a name that differs from a registered name only in letter case, by
\* added whitespace, or by a prefix or suffix does not resolve: the lookup
\* fails with the unknown-processing-type error and nothing is processed.
C21_LookupExactMatch ==
    (/\ call.fn \in {"get_processor", "process_file"}
     /\ \E reg \in DOMAIN NameVariants : call.name \in NameVariants[reg]) =>
        /\ ~Unwrap(call.resolved).ok
        /\ Unwrap(call.resolved).error =
              <<"Unknown processing type: ", call.name>>
        /\ call.result = None

C21_Witness ==
    /\ call.fn = "get_processor" /\ call.name = "Standard"
    /\ ~Unwrap(call.resolved).ok

\* C22: the translate processor succeeds for every language; for a language
\* other than "pl" the completion is the prompt, unmodified, and for "pl" it
\* is the translated text.
C22_TranslateFallback ==
    (call.fn = "process_file" /\ call.name = "translate") =>
        /\ IsSome(call.result)
        /\ LET record == Unwrap(call.result).records[1]
               language == Unwrap(call.config).language
           IN /\ language # "pl" => record.completion = record.prompt
              /\ language = "pl" =>
                    /\ record.completion # record.prompt
                    /\ record.completion =
                         "To jest przykladowy tekst, ktory wymaga tlumaczenia."

C22_Witness ==
    /\ call.fn = "process_file" /\ call.name = "translate"
    /\ Unwrap(call.config).language = "PL"
    /\ IsSome(call.result)
    /\ Unwrap(call.result).records[1].completion =
          Unwrap(call.result).records[1].prompt

\* C23: process_file of a processor resolved by name succeeds, whatever the
\* path and configuration, with source_file the path given, processing_type
\* the name looked up, and at least one record.
C23_PipelineResult ==
    (call.fn = "process_file" /\ Unwrap(call.resolved).ok) =>
        /\ IsSome(call.result)
        /\ Unwrap(call.result).source_file = call.file_path
        /\ Unwrap(call.result).processing_type = call.name
        /\ Unwrap(call.result).records # << >>

C23_Witness ==
    /\ call.fn = "process_file" /\ call.name = "article"
    /\ call.file_path = ""
    /\ IsSome(call.result)
    /\ Unwrap(call.result).source_file = ""
    /\ Len(Unwrap(call.result).records) = 1

\* C24: serializing and then deserializing a ProcessingConfig or a JobStatus
\* succeeds and gives back a value equal to the original in every field,
\* absent optional fields included.
C24_SerdeRoundTrip ==
    call.fn \in {"serde ProcessingConfig", "serde JobStatus"} =>
        /\ call.back.ok
        /\ call.back.value = Some(call.value)

\* C25: the serialized form of a JobStatus whose error is absent has no
\* member called "error", and has job_id, status, current and total with
\* their values.
C25_AbsentErrorOmitted ==
    (call.fn = "serde JobStatus" /\ call.value.error = None) =>
        /\ member(call.json, "error") = None
        /\ member(call.json, "job_id") = Some(JsonString(call.value.job_id))
        /\ member(call.json, "status") = Some(JsonString(call.value.status))
        /\ IsSome(call.value.current) =>
              member(call.json, "current") =
                 Some(JsonNumber(Unwrap(call.value.current)))
        /\ IsSome(call.value.total) =>
              member(call.json, "total") =
                 Some(JsonNumber(Unwrap(call.value.total)))

\* the text s has the text t in it
contains(s, t) ==
    \E i \in 1..(Len(s) + 1) :
       /\ i + Len(t) - 1 <= Len(s)
       /\ SubSeq(s, i, i + Len(t) - 1) = t

\* the five operations of the client
ApiOps ==
    {"get_job_status", "upload_file", "ApiClient::process_file",
     "get_available_models", "download_results"}

\* the last call was an operation of the client that got a response with a
\* status that is not a success
NonSuccessReceived ==
    /\ call.fn \in ApiOps
    /\ call.resp.sent
    /\ ~is_success(call.resp.code)
    /\ call.fn = "upload_file" =>
          IsSome(call.file.name) /\ IsSome(call.file.data)

\* C26: every operation of the client that receives a non-success response
\* returns an error, and the error carries the status code and the body text
\* the backend returned.
C26_NonSuccessSurfaced ==
    NonSuccessReceived =>
        /\ ~call.result.ok
        /\ call.result.value = None
        /\ contains(call.result.error, Decimal(call.resp.code))
        /\ IsSome(call.resp.text) =>
              contains(call.result.error, Unwrap(call.resp.text))

C26_Witness ==
    /\ NonSuccessReceived
    /\ call.fn = "download_results"
    /\ call.resp.code = 404
    /\ contains(call.result.error, <<"Job not found">>)

\* the category of the API error taxonomy a status code belongs to
ApiErrorKind(code) ==
    CASE code \in {401, 403} -> "Authentication"
      [] code = 404 -> "NotFound"
      [] code >= 500 -> "ServerError"
      [] OTHER -> "BadRequest"

\* C27: the error get_job_status returns for a non-2xx response is an API
\* error of the category its status code belongs to, so that 404 and 500
\* give errors of different kinds.
C27_ErrorClassified ==
    (NonSuccessReceived /\ call.fn = "get_job_status") =>
        LET e == AppError_from(call.result.error)
        IN /\ e.variant = "Api"
           /\ e.kind = ApiErrorKind(call.resp.code)

\* C28: a download that succeeds leaves at the destination exactly the bytes
\* of the response, whatever the file held before, and no other file changed;
\* a download that receives a non-success response leaves every file as it was.
C28_DownloadPersists ==
    call.fn = "download_results" =>
        /\ call.result.ok =>
              /\ disk[call.output_path] = call.resp.text
              /\ \A path \in OutputPaths \ {call.output_path} :
                    disk[path] = call.before[path]
        /\ NonSuccessReceived => disk = call.before

C28_Witness ==
    /\ call.fn = "download_results" /\ call.result.ok
    /\ IsSome(call.before[call.output_path])
    /\ call.before[call.output_path] # call.resp.text
    /\ Unwrap(call.before[call.output_path]) # << >>
    /\ disk[call.output_path] = call.resp.text

\* C29: the loop is left only by 'q' on Main or by a failure of the terminal;
\* after any other key and after any tick, a tick whose poll of the job would
\* fail included, the loop is still running.
C29_LoopSurvivesErrors ==
    /\ ~running => (quits(pre, event) \/ event = "TerminalError")
    /\ (event \in Keys /\ ~quits(pre, event)) => running
    /\ event = "Tick" => running

C29_Witness ==
    /\ event = "Tick" /\ running
    /\ IsSome(app.current_job_id)
    /\ IsSome(backend)
    /\ ~get_job_status(Unwrap(backend)).ok

\* the place of the call named name in the log of the hook, 0 if it is not there
CallIndex(name) ==
    LET I == {i \in 1..Len(term.calls) : term.calls[i][1] = name}
    IN IF I = {} THEN 0 ELSE CHOOSE i \in I : TRUE

\* the hook has written, or tried to write, the crash report
ReportWritten == CallIndex("fs::write") > 0

C31_MainRestoresTerminal ==
    (call.fn = "main" /\ call.outcomes.enable_raw_mode = "ok") =>
        /\ ~call.end.term.raw_mode
        /\ ~call.end.term.alternate_screen

\* C32: on Upload, 'f' appends exactly one entry at the end of the uploaded
\* files and sets the upload-success message; the entries already there, their
\* order, the file selection and every other field stay as they were; any
\* other key but Esc leaves the whole session unchanged.
C32_UploadAppendsOnly ==
    (pre.state = "Upload" /\ event \in Keys \ {"Esc"}) =>
        IF event = "f"
        THEN /\ Len(app.uploaded_files) = Len(pre.uploaded_files) + 1
             /\ SubSeq(app.uploaded_files, 1, Len(pre.uploaded_files)) = pre.uploaded_files
             /\ app.message = Some(<<"File uploaded successfully">>)
             /\ app.selected_file_index = pre.selected_file_index
             /\ app = [pre EXCEPT !.uploaded_files = app.uploaded_files,
                                  !.message = app.message]
        ELSE app = pre

C32_Witness ==
    /\ event = "f" /\ pre.state = "Upload"
    /\ Len(pre.uploaded_files) = 2
    /\ pre.selected_file_index = Some(1)
    /\ app.uploaded_files[3] = <<"file_", "3", ".pdf">>

\* C33: an entry of level L reaches the console exactly when L is at least
\* the console threshold and the file exactly when L is at least the file
\* threshold, whatever the other threshold is and whatever writing to the
\* other sink did.
C33_SinksIndependent ==
    call.fn = "log" =>
        /\ call.sinks.console = LogLevel_ge(call.level, call.logger.console_level)
        /\ (call.outcome = "ok" /\ IsSome(call.logger.log_file)) =>
              call.sinks.file = LogLevel_ge(call.level, call.logger.file_level)

\* C34: in every session reached from App::new by key presses the selected
\* provider index is a valid index of the providers and the selected model
\* index a valid index of that provider's models, so get_current_provider and
\* get_current_model both return a value and the settings screen never shows
\* "none".
C34_SelectionValid ==
    /\ IsSome(app.selected_provider_index)
    /\ Unwrap(app.selected_provider_index) \in 0..(Len(app.providers) - 1)
    /\ IsSome(app.selected_model_index)
    /\ Unwrap(app.selected_model_index) \in
          0..(Len(app.models[app.providers[Unwrap(app.selected_provider_index) + 1]]) - 1)
    /\ IsSome(get_current_provider(app))
    /\ IsSome(get_current_model(app))
    /\ draw_settings(app).provider # "none"
    /\ draw_settings(app).model # "none"

C34_Witness ==
    /\ event = "m" /\ pre.state = "Settings"
    /\ pre.selected_provider_index = Some(1)
    /\ pre.selected_model_index = Some(1)
    /\ get_current_model(pre) = Some(pre.models[pre.providers[2]][2])
    /\ get_current_model(app) = Some(app.models[app.providers[2]][1])

\* C35: on Settings, 'p' moves the provider selection one forward, wrapping
\* from the last provider to the first, and always puts the model selection
\* on the first model; 'm' moves the model selection one forward within the
\* models of the current provider, wrapping from the last to the first, and
\* never changes the provider.
C35_ProviderModelCycle ==
    (/\ pre.state = "Settings"
     /\ IsSome(pre.selected_provider_index)
     /\ IsSome(pre.selected_model_index)) =>
        LET i == Unwrap(pre.selected_provider_index)
            j == Unwrap(pre.selected_model_index)
            n == Len(pre.providers)
            k == Len(pre.models[pre.providers[i + 1]])
        IN /\ event = "p" =>
                /\ app.selected_provider_index = Some((i + 1) % n)
                /\ app.selected_model_index = Some(0)
           /\ event = "m" =>
                /\ app.selected_model_index = Some((j + 1) % k)
                /\ app.selected_provider_index = pre.selected_provider_index

C35_Witness ==
    /\ event = "p" /\ pre.state = "Settings"
    /\ pre.selected_provider_index = Some(1)
    /\ pre.selected_model_index = Some(1)
    /\ app.selected_provider_index = Some(0)
    /\ app.selected_model_index = Some(0)

\* C36: on Process, the keys '1', '2', '3', '4' set the mode to standard,
\* article, translate, batch, the order in which ProcessingType::all lists
\* them, and change nothing else in the session.
C36_ModeKeysSetModeOnly ==
    (pre.state = "Process" /\ event \in {"1", "2", "3", "4"}) =>
        LET n == CHOOSE i \in 1..4 : Digit[i + 1] = event
        IN /\ app.processing_type = ProcessingType_all[n]
           /\ to_str(app.processing_type) =
                 <<"standard", "article", "translate", "batch">>[n]
           /\ app = [pre EXCEPT !.processing_type = ProcessingType_all[n]]

C36_Witness ==
    /\ event = "3" /\ pre.state = "Process"
    /\ pre.processing_type = "Standard"
    /\ pre.uploaded_files # << >>
    /\ IsSome(pre.selected_file_index)
    /\ IsSome(pre.current_job_id)
    /\ IsSome(pre.message)
    /\ app.processing_type = "Translate"

\* C37: current_job_id, job_progress and job_status are always all absent or
\* all present: there is never a job id without progress or status, nor
\* progress or a status without a job id.
C37_JobFieldsTogether ==
    \/ Job(app) = <<None, None, None>>
    \/ IsSome(app.current_job_id) /\ IsSome(app.job_progress) /\ IsSome(app.job_status)

C37_Witness ==
    /\ event = "Enter" /\ pre.state = "JobStatus"
    /\ Job(pre) = <<None, None, None>>
    /\ IsSome(app.current_job_id) /\ IsSome(app.job_progress) /\ IsSome(app.job_status)

\* C38: once the session has a status message it has one in every later
\* state, after a cancel to Main and after entering another screen too, so the
\* status bar shows the message and never again the hint of the screen.
C38_MessageNeverCleared ==
    IsSome(pre.message) =>
        /\ IsSome(app.message)
        /\ draw_status_bar(app) = Unwrap(app.message)
        /\ draw_status_bar(app) # DefaultHint(app.state)

C38_Witness ==
    /\ event = "j" /\ pre.state = "Main" /\ app.state = "JobStatus"
    /\ pre.message = Some(<<"File uploaded successfully">>)
    /\ draw_status_bar(app) = <<"File uploaded successfully">>

\* C39: Esc changes the active screen and nothing else: uploaded files, file
\* selection, mode, language, provider and model selection, the text of the
\* job-id field and the status message are the same before and after.
C39_CancelChangesScreenOnly ==
    event = "Esc" =>
        /\ app = [pre EXCEPT !.state = "Main"]
        /\ app.uploaded_files = pre.uploaded_files
        /\ app.selected_file_index = pre.selected_file_index
        /\ app.job_id_input = pre.job_id_input
        /\ app.message = pre.message

C39_Witness ==
    /\ event = "Esc" /\ pre.state = "JobStatus" /\ app.state = "Main"
    /\ pre.uploaded_files # << >>
    /\ IsSome(pre.selected_file_index)
    /\ pre.job_id_input.value # << >>
    /\ IsSome(pre.message)
    /\ app.job_id_input = pre.job_id_input

\* C40: the name to_str gives for the selected ProcessingType is resolved by
\* get_processor to a processor whose name() is that same string, and every
\* processor get_processor hands out has the to_str of some ProcessingType as
\* its name().
C40_ModesMatchRegistry ==
    /\ LET r == get_processor(to_str(app.processing_type))
       IN /\ r.ok
          /\ Processor_name(r.processor) = to_str(app.processing_type)
    /\ (call.fn = "get_processor" /\ Unwrap(call.resolved).ok) =>
          \E pt \in ProcessingType :
             to_str(pt) = Processor_name(Unwrap(call.resolved).processor)

C40_Witness ==
    /\ app.processing_type = "Batch"
    /\ call.fn = "get_processor"
    /\ call.name = to_str(app.processing_type)
    /\ Unwrap(call.resolved).ok
    /\ Processor_name(Unwrap(call.resolved).processor) = "batch"

====
